---- MODULE Spec2Model ----
(***************************************************************************)
(* The real-time call session engine of the Vonage voice agent:            *)
(*   - SessionManager / CallSession.close   (SESSION_CLEANUP_FIX.md)       *)
(*   - the OpenAI event loop with barge-in  (DEPLOYMENT.md)                *)
(*   - the OpenRouter race with the emergency fallback                     *)
(*                                          (EMERGENCY_FALLBACK_BRAIN.md)  *)
(* Each part has its own specification; the variables of the other parts   *)
(* stay unchanged in it.                                                   *)
(***************************************************************************)
EXTENDS Integers, Sequences, FiniteSets, TLC

(***************************************************************************)
(* State                                                                   *)
(***************************************************************************)

VARIABLES
  sessions,   \* SessionManager._sessions: call_uuid -> session (0: no entry)
  nextSess,   \* number of CallSession objects constructed so far
  owner,      \* session -> its call_uuid (0: not constructed)
  held,       \* session -> the resources it was given
  present,    \* session -> resources whose handle still passes close()'s test
  attempts,   \* session -> resource -> number of release calls made on it
  task        \* caller -> the coroutine it runs (position and locals)

smVars == <<sessions, nextSess, owner, held, present, attempts, task>>

VARIABLES
  now,            \* the event loop's clock
  agentSpeaking,  \* self._agent_speaking
  itemId,         \* self._current_response_item_id (0: not set)
  audioChunks,    \* self._openai_audio_chunks: response ids of buffered chunks
  suppressUntil,  \* self._suppress_openai_output_until
  hpc,            \* speech_started handler: next step to run (0: not running)
  steps,          \* the steps the current/last interruption has run, in order
  wire,           \* events sent by the backend and not yet handled
  srvGen,         \* responses created by the backend so far
  srvActive,      \* the response the backend is generating (0: none)
  srvEmitted,     \* audio deltas emitted for srvActive
  callerSpeaking, \* the backend's VAD state
  speakGen,       \* response id of the last chunk accepted into the buffer
  cancelled,      \* responses that were interrupted
  delivered,      \* response id -> chunks handed to the Media Relay
  dropped,        \* audio deltas dropped by the suppression check
  call,           \* the phone call: "idle", "answered" or "ended"
  speechStoppedTime, \* self._speech_stopped_time (-1: None)
  interruptions,  \* interruptions run so far ("INTERRUPTION DETECTED")
  scenario,       \* events of Script handled so far (-1: the events left it)
  truncateMsg     \* the last conversation.item.truncate sent (item_id -1: none)

callVars == <<now, agentSpeaking, itemId, audioChunks, suppressUntil, hpc, steps, wire,
              srvGen, srvActive, srvEmitted, callerSpeaking, speakGen, cancelled,
              delivered, dropped, call, speechStoppedTime, interruptions,
              scenario, truncateMsg>>

VARIABLES
  clock,      \* ms since the race began
  lat,        \* candidate -> ms from its start to its first token (0: never)
  startAt,    \* candidate -> when its request was started (-1: not started)
  cstate,     \* candidate -> "idle", "running" or "cancelled"
  yielded,    \* candidate -> tokens its provider has produced
  queue,      \* candidate -> tokens waiting in its race queue
  winner,     \* the winning candidate (0: none yet)
  timer,      \* the delayed fallback task: "armed", "fired" or "cancelled"
  raceBuf,    \* the candidates whose tokens reached the Audio Buffer, in order
  sessionClosed \* CallSession.close() has run for the session of this turn

raceVars == <<clock, lat, startAt, cstate, yielded, queue, winner, timer, raceBuf,
              sessionClosed>>

VARIABLES
  responseTimes,  \* self._response_times
  endPc,          \* where close() is: "live", "log", "release", "done"
  endAvg,         \* avg_response_time as computed by close() (-1: not computed)
  endRecord,      \* the call-end record: "none", "written", "lost"
  endReleased,    \* the resources close() has attempted to release
  endRegistered,  \* the session is in SessionManager._sessions
  endError        \* the exception that left close_session ("none": none)
endVars == <<responseTimes, endPc, endAvg, endRecord, endReleased, endRegistered, endError>>

VARIABLES
  config,            \* CONFIG: the timeout-test settings
  configAtCreation,  \* the settings as they were when the session was created
  mtime,             \* the clock, in ticks of half a second
  mcall,             \* "none", "live", "ended"
  phase,             \* of the turn: "idle", "pending" (response triggered), "audio"
  turn,              \* number of responses triggered so far
  mtask,             \* self._timeout_test_task
  mdeadline,         \* when the monitor's wait is over (-1: no monitor)
  usedSeconds,       \* the threshold the last monitor was started with (0: none)
  triggered,         \* self._timeout_test_triggered
  plays              \* times the "deleted response" audio was played in this turn
monVars == <<config, configAtCreation, mtime, mcall, phase, turn, mtask, mdeadline,
             usedSeconds, triggered, plays>>

VARIABLES
  srv,      \* the server processes: "none", "starting", "listening", "stopped"
  termSent, \* the processes that were sent terminate() and still run
  gthread   \* the threads of the control panel: pc, op, pid
guiVars == <<srv, termSent, gthread>>

auxVars == <<endVars, monVars, guiVars>>

vars == <<smVars, callVars, raceVars, auxVars>>

(***************************************************************************)
(* Part 1: SessionManager                                                  *)
(***************************************************************************)

\* Bounds of the session-manager model.
NumProcs == 2
NumIds == 2
MaxSessions == 3

Procs == 1..NumProcs
Ids == 1..NumIds
SessIds == 1..MaxSessions

\* The resources CallSession.close releases, in the order it releases them.
ResOrder == <<"openai_ws", "vonage_ws", "speechmatics_client">>
ResNames == {ResOrder[i] : i \in 1..Len(ResOrder)}
\* What a new CallSession holds: both sockets, and the Speechmatics HTTP
\* client when that provider is in use.
HeldChoices == {ResNames, ResNames \ {"speechmatics_client"}}

\* op, arg: the call; sess: the session close_session looked up; at: the
\* resource whose release is awaited; fails: the releases that raised in this
\* call; result, ret: how the last call ended and what it returned.
IdleTask == [pc |-> "idle", op |-> "none", arg |-> 0, sess |-> 0, at |-> 0,
             fails |-> {}, result |-> "none", ret |-> 0]

SmInit ==
  /\ sessions = [id \in Ids |-> 0]
  /\ nextSess = 0
  /\ owner = [s \in SessIds |-> 0]
  /\ held = [s \in SessIds |-> {}]
  /\ present = [s \in SessIds |-> {}]
  /\ attempts = [s \in SessIds |-> [r \in ResNames |-> 0]]
  /\ task = [p \in Procs |-> IdleTask]

\* `if self.openai_ws:` / `if self.vonage_ws:` / `if hasattr(self, ...)`:
\* the first resource at or after position i that close() will release.
NextReleaseSkipsVonage(pres, i) ==
  IF i <= 1 /\ "openai_ws" \in pres THEN 1
  ELSE IF i <= Len(ResOrder) /\ "speechmatics_client" \in pres THEN Len(ResOrder)
  ELSE Len(ResOrder) + 1
RECURSIVE NextRelease(_, _)
NextRelease(pres, i) ==
  IF i > Len(ResOrder) THEN i
  ELSE IF ResOrder[i] \in pres THEN i
  ELSE NextRelease(pres, i + 1)

\* `self.openai_ws = None` and `self.vonage_ws = None` follow the release;
\* the Speechmatics client attribute is never reset.
ClearedAfterRelease(r) == r \in {"openai_ws", "vonage_ws"}

\* `except Exception as e: logger.warning(...)` around each release.
ReleaseUncaught(r) == r = "vonage_ws"
ReleaseCaught(r) == TRUE

\* Creators that are suspended inside close_session and will construct a
\* session when they resume.
PendingCreates == Cardinality({q \in Procs : task[q].pc = "await" /\ task[q].op = "create"})

\* `session = CallSession(call_uuid, caller, called)`, its registration and
\* the return.  reg and pr are the registry and the handle sets at that point.
Construct(p, t, reg, pr) ==
  LET new == nextSess + 1 IN
  \E H \in HeldChoices :
    /\ nextSess' = new
    /\ owner' = [owner EXCEPT ![new] = t.arg]
    /\ held' = [held EXCEPT ![new] = H]
    /\ present' = [pr EXCEPT ![new] = H]
    /\ sessions' = [reg EXCEPT ![t.arg] = new]
    /\ task' = [task EXCEPT ![p] = [t EXCEPT !.pc = "idle", !.result = "created",
                                              !.ret = new, !.at = 0]]

\* What follows `await self._sessions[call_uuid].close()` in close_session:
\* `del self._sessions[call_uuid]`, then the rest of the caller.
AfterCloseNoDel(p, t, pr) ==
  IF t.op = "close"
  THEN /\ task' = [task EXCEPT ![p] = [t EXCEPT !.pc = "idle", !.result = "closed", !.at = 0]]
       /\ present' = pr
       /\ UNCHANGED <<sessions, nextSess, owner, held>>
  ELSE Construct(p, t, sessions, pr)
AfterClose(p, t, pr) ==
  IF sessions[t.arg] = 0
  THEN \* KeyError: raised out of close_session (and out of create_session)
       /\ task' = [task EXCEPT ![p] = [t EXCEPT !.pc = "idle", !.result = "KeyError", !.at = 0]]
       /\ present' = pr
       /\ UNCHANGED <<sessions, nextSess, owner, held>>
  ELSE IF t.op = "close"
  THEN /\ sessions' = [sessions EXCEPT ![t.arg] = 0]
       /\ task' = [task EXCEPT ![p] = [t EXCEPT !.pc = "idle", !.result = "closed", !.at = 0]]
       /\ present' = pr
       /\ UNCHANGED <<nextSess, owner, held>>
  ELSE Construct(p, t, [sessions EXCEPT ![t.arg] = 0], pr)

\* CallSession.close run from resource position i up to its next await, or
\* to its end.  pr holds the handle sets at that point.
ContinueClose(p, t, i, pr) ==
  LET s == t.sess
      j == NextRelease(pr[s], i)
  IN IF j <= Len(ResOrder)
     THEN /\ attempts' = [attempts EXCEPT ![s][ResOrder[j]] = @ + 1]
          /\ present' = pr
          /\ task' = [task EXCEPT ![p] = [t EXCEPT !.pc = "await", !.at = j]]
          /\ UNCHANGED <<sessions, nextSess, owner, held>>
     ELSE /\ UNCHANGED attempts
          /\ AfterClose(p, t, pr)

\* close_session for a call_uuid with no entry: the else branch, a warning.
CloseAbsentRaises(p, id) ==
  /\ task' = [task EXCEPT ![p] = [IdleTask EXCEPT !.op = "close", !.arg = id,
                                                  !.result = "KeyError"]]
  /\ UNCHANGED <<sessions, nextSess, owner, held, present, attempts>>
CloseAbsent(p, id) ==
  /\ task' = [task EXCEPT ![p] = [IdleTask EXCEPT !.op = "close", !.arg = id,
                                                  !.result = "noop"]]
  /\ UNCHANGED <<sessions, nextSess, owner, held, present, attempts>>

\* SessionManager.close_session(call_uuid), from the call to its first await.
CloseSession(p, id) ==
  /\ task[p].pc = "idle"
  /\ UNCHANGED <<callVars, raceVars, auxVars>>
  /\ IF sessions[id] = 0
     THEN CloseAbsent(p, id)
     ELSE /\ ContinueClose(p, [IdleTask EXCEPT !.op = "close", !.arg = id,
                                               !.sess = sessions[id], !.result = "pending"],
                           1, present)

\* create_session for a call_uuid that has an entry: close it, then go on.
CreateExistingNoCleanup(p, id) ==
  /\ Construct(p, [IdleTask EXCEPT !.op = "create", !.arg = id, !.sess = sessions[id]],
               sessions, present)
  /\ UNCHANGED attempts
CreateExisting(p, id) ==
  /\ ContinueClose(p, [IdleTask EXCEPT !.op = "create", !.arg = id,
                                       !.sess = sessions[id], !.result = "pending"],
                   1, present)

\* SessionManager.create_session(call_uuid), from the call to its first await.
CreateSession(p, id) ==
  /\ task[p].pc = "idle"
  /\ UNCHANGED <<callVars, raceVars, auxVars>>
  /\ nextSess + PendingCreates < MaxSessions
  /\ IF sessions[id] # 0
     THEN CreateExisting(p, id)
     ELSE /\ Construct(p, [IdleTask EXCEPT !.op = "create", !.arg = id], sessions, present)
          /\ UNCHANGED attempts

\* A suspended `await ...close()` / `await ...aclose()` resumes: the release
\* returned (ok) or raised.
ResumeClose(p, ok) ==
  /\ task[p].pc = "await"
  /\ UNCHANGED <<callVars, raceVars, auxVars>>
  /\ LET r == ResOrder[task[p].at]
         t == IF ok THEN task[p] ELSE [task[p] EXCEPT !.fails = @ \cup {r}]
         s == t.sess
         pr == IF ClearedAfterRelease(r) THEN [present EXCEPT ![s] = @ \ {r}] ELSE present
     IN IF ok \/ ReleaseCaught(r)
        THEN ContinueClose(p, t, t.at + 1, pr)
        ELSE \* the exception leaves close() and close_session
             /\ task' = [task EXCEPT ![p] = [t EXCEPT !.pc = "idle",
                                                      !.result = "ReleaseError", !.at = 0]]
             /\ UNCHANGED <<sessions, nextSess, owner, held, present, attempts>>

SmNext ==
  \E p \in Procs :
    \/ \E id \in Ids : CreateSession(p, id)
    \/ \E id \in Ids : CloseSession(p, id)
    \/ \E ok \in BOOLEAN : ResumeClose(p, ok)

\* get_active_session_count()
ActiveCount == Cardinality({id \in Ids : sessions[id] # 0})

\* Calls issued one after the other by one caller.
SeqNext ==
  \/ \E id \in Ids : CreateSession(1, id)
  \/ \E id \in Ids : CloseSession(1, id)
  \/ \E ok \in BOOLEAN : ResumeClose(1, ok)

(***************************************************************************)
(* Part 2: the OpenAI event loop of one call, with barge-in                *)
(***************************************************************************)

\* Bounds of the call model.
MaxTime == 3      \* clock ticks (one tick is 250 ms)
MaxGens == 2      \* responses the backend is asked for
MaxChunks == 2    \* audio deltas per response
MaxWire == 3      \* events in flight from the backend

\* `asyncio.get_event_loop().time() + 0.5`, in ticks.
SuppressionWindow == 2

Gens == 1..MaxGens

CallInit ==
  /\ now = 0
  /\ agentSpeaking = FALSE
  /\ itemId = 0
  /\ audioChunks = <<>>
  /\ suppressUntil = 0
  /\ hpc = 0
  /\ steps = <<>>
  /\ wire = <<>>
  /\ srvGen = 0
  /\ srvActive = 0
  /\ srvEmitted = 0
  /\ callerSpeaking = FALSE
  /\ speakGen = 0
  /\ cancelled = {}
  /\ delivered = [g \in Gens |-> 0]
  /\ dropped = 0
  /\ call = "idle"
  /\ speechStoppedTime = -1
  /\ interruptions = 0
  /\ scenario = 0
  /\ truncateMsg = [item_id |-> -1, audio_end_ms |-> -1]

Event(type, gen) == [type |-> type, gen |-> gen]

\* The body of `if self._agent_speaking:` in the speech_started handler.
HandlerProgramBefore == <<"cancel", "stop">>
HandlerProgram == <<"cancel", "truncate", "clear", "suppress", "stop">>

\* The conversation.item.truncate the handler sends: the item is
\* `getattr(self, '_current_response_item_id', 'response')` (0: the default
\* 'response'), `"audio_end_ms": 0`.
TruncateEvent == [item_id |-> itemId, audio_end_ms |-> 0]

\* The steps that are `await self.openai_ws.send(...)`: the handler may be
\* suspended after them.
Sends == {"cancel", "truncate"}

\* The handler runs and has not reached an await: no other task runs.
Atomic == hpc > 0 /\ (steps = <<>> \/ steps[Len(steps)] \notin Sends)

\* "Drops audio if current time < suppression time".
NeverSuppressed == FALSE
Suppressed == now < suppressUntil

\* The turn-taking state of the call, read off the fields of the session.
State ==
  IF call # "answered" THEN "IDLE"
  ELSE IF hpc > 0 THEN "INTERRUPTED"
  ELSE IF agentSpeaking THEN "SPEAKING"
  ELSE IF speechStoppedTime # -1 THEN "THINKING"
  ELSE "LISTENING"

\* THINKING -> SPEAKING: the first audio chunk after the caller stopped
\* speaking starts the agent's speech; further chunks keep it.
BeginsSpeakingAlways == TRUE
BeginsSpeaking == agentSpeaking \/ speechStoppedTime # -1

\* The state-sequence scenario: the events of one call in the order they are
\* handled; "handled" is the end of the handling of speech_started.  A
\* speech_started that finds the agent silent where the script expects another
\* event (the caller begins the first utterance) is not part of the script.
Script == <<"call-answered", "speech_stopped", "audio", "done",
            "speech_started", "handled", "speech_stopped">>
MatchesNext(n, ev) == n >= 0 /\ n < Len(Script) /\ Script[n + 1] = ev
Follow(ev) == IF MatchesNext(scenario, ev) THEN scenario + 1 ELSE -1
FollowTwo(ev1, ev2) ==
  IF MatchesNext(scenario, ev1) /\ MatchesNext(scenario + 1, ev2)
  THEN scenario + 2
  ELSE IF MatchesNext(scenario, ev1) THEN -1
  ELSE scenario   \* an ignored event the script does not list

\* --- the telephony transport --------------------------------------------

\* The call is answered and the inbound audio stream opens.
OnCallAnswered ==
  /\ call = "idle"
  /\ call' = "answered"
  /\ UNCHANGED <<now, agentSpeaking, itemId, audioChunks, suppressUntil, hpc, steps, wire,
                 srvGen, srvActive, srvEmitted, callerSpeaking, speakGen, cancelled,
                 delivered, dropped, speechStoppedTime, interruptions>>
  /\ scenario' = Follow("call-answered")
  /\ UNCHANGED truncateMsg
  /\ UNCHANGED <<smVars, raceVars, auxVars>>

\* The call ends: the event loop stops and the session is handed to
\* close_session.
OnCallEnded ==
  /\ call = "answered"
  /\ ~Atomic
  /\ call' = "ended"
  /\ UNCHANGED <<now, agentSpeaking, itemId, audioChunks, suppressUntil, hpc, steps, wire,
                 srvGen, srvActive, srvEmitted, callerSpeaking, speakGen, cancelled,
                 delivered, dropped, speechStoppedTime, interruptions>>
  /\ scenario' = -1
  /\ UNCHANGED truncateMsg
  /\ UNCHANGED <<smVars, raceVars, auxVars>>

\* --- the backend and the caller ---------------------------------------

SrvEmitAudio ==
  /\ call = "answered"
  /\ ~Atomic
  /\ srvActive # 0
  /\ srvEmitted < MaxChunks
  /\ Len(wire) < MaxWire
  /\ wire' = Append(wire, Event("audio", srvActive))
  /\ srvEmitted' = srvEmitted + 1
  /\ UNCHANGED <<now, agentSpeaking, itemId, audioChunks, suppressUntil, hpc, steps,
                 srvGen, srvActive, callerSpeaking, speakGen, cancelled, delivered, dropped>>
  /\ UNCHANGED <<call, speechStoppedTime, interruptions>>
  /\ UNCHANGED scenario
  /\ UNCHANGED truncateMsg
  /\ UNCHANGED <<smVars, raceVars, auxVars>>

SrvEmitDone ==
  /\ call = "answered"
  /\ ~Atomic
  /\ srvActive # 0
  /\ srvEmitted >= 1
  /\ Len(wire) < MaxWire
  /\ wire' = Append(wire, Event("done", srvActive))
  /\ srvActive' = 0
  /\ UNCHANGED <<now, agentSpeaking, itemId, audioChunks, suppressUntil, hpc, steps,
                 srvGen, srvEmitted, callerSpeaking, speakGen, cancelled, delivered, dropped>>
  /\ UNCHANGED <<call, speechStoppedTime, interruptions>>
  /\ UNCHANGED scenario
  /\ UNCHANGED truncateMsg
  /\ UNCHANGED <<smVars, raceVars, auxVars>>

CallerStartsSpeaking ==
  /\ call = "answered"
  /\ ~Atomic
  /\ ~callerSpeaking
  /\ Len(wire) < MaxWire
  /\ wire' = Append(wire, Event("speech_started", 0))
  /\ callerSpeaking' = TRUE
  /\ UNCHANGED <<now, agentSpeaking, itemId, audioChunks, suppressUntil, hpc, steps,
                 srvGen, srvActive, srvEmitted, speakGen, cancelled, delivered, dropped>>
  /\ UNCHANGED <<call, speechStoppedTime, interruptions>>
  /\ UNCHANGED scenario
  /\ UNCHANGED truncateMsg
  /\ UNCHANGED <<smVars, raceVars, auxVars>>

CallerStopsSpeaking ==
  /\ call = "answered"
  /\ ~Atomic
  /\ callerSpeaking
  /\ Len(wire) < MaxWire
  /\ wire' = Append(wire, Event("speech_stopped", 0))
  /\ callerSpeaking' = FALSE
  /\ UNCHANGED <<now, agentSpeaking, itemId, audioChunks, suppressUntil, hpc, steps,
                 srvGen, srvActive, srvEmitted, speakGen, cancelled, delivered, dropped>>
  /\ UNCHANGED <<call, speechStoppedTime, interruptions>>
  /\ UNCHANGED scenario
  /\ UNCHANGED truncateMsg
  /\ UNCHANGED <<smVars, raceVars, auxVars>>

Tick ==
  /\ call = "answered"
  /\ ~Atomic
  /\ now < MaxTime
  /\ now' = now + 1
  /\ UNCHANGED <<agentSpeaking, itemId, audioChunks, suppressUntil, hpc, steps, wire,
                 srvGen, srvActive, srvEmitted, callerSpeaking, speakGen, cancelled,
                 delivered, dropped>>
  /\ UNCHANGED <<call, speechStoppedTime, interruptions>>
  /\ UNCHANGED scenario
  /\ UNCHANGED truncateMsg
  /\ UNCHANGED <<smVars, raceVars, auxVars>>

\* --- the event loop: one handler per event type -------------------------

LoopAlwaysIdle == TRUE

\* The session's events pass through one receive loop: the next event is
\* taken only when the handler of the previous one has returned.
LoopIdle == hpc = 0

ShouldInterruptAlways == TRUE

\* The guard of the interruption: `if self._agent_speaking:`.
ShouldInterrupt == agentSpeaking

\* input_audio_buffer.speech_started
OnSpeechStarted ==
  /\ call = "answered"
  /\ LoopIdle
  /\ wire # <<>> /\ Head(wire).type = "speech_started"
  /\ wire' = Tail(wire)
  /\ IF ShouldInterrupt
     THEN hpc' = 1 /\ steps' = <<>>
     ELSE UNCHANGED <<hpc, steps>>
  /\ UNCHANGED <<now, agentSpeaking, itemId, audioChunks, suppressUntil,
                 srvGen, srvActive, srvEmitted, callerSpeaking, speakGen, cancelled,
                 delivered, dropped>>
  /\ interruptions' = IF ShouldInterrupt THEN interruptions + 1 ELSE interruptions
  /\ UNCHANGED <<call, speechStoppedTime>>
  /\ scenario' = IF ShouldInterrupt THEN Follow("speech_started")
                  ELSE FollowTwo("speech_started", "handled")
  /\ UNCHANGED truncateMsg
  /\ UNCHANGED <<smVars, raceVars, auxVars>>

\* One step of the interruption: response.cancel, conversation.item.truncate,
\* the buffer reset, the suppression deadline, _agent_speaking = False.
InterruptStep ==
  /\ call = "answered"
  /\ hpc > 0
  /\ LET op == HandlerProgram[hpc] IN
     /\ steps' = Append(steps, op)
     /\ hpc' = IF hpc = Len(HandlerProgram) THEN 0 ELSE hpc + 1
     /\ IF op = "cancel" /\ srvActive # 0
        THEN /\ wire' = Append(wire, Event("done", srvActive))
             /\ srvActive' = 0
        ELSE UNCHANGED <<wire, srvActive>>
     /\ audioChunks' = IF op = "clear" THEN <<>> ELSE audioChunks
     /\ suppressUntil' = IF op = "suppress" THEN now + SuppressionWindow ELSE suppressUntil
     /\ agentSpeaking' = IF op = "stop" THEN FALSE ELSE agentSpeaking
     /\ cancelled' = IF hpc = Len(HandlerProgram) /\ speakGen # 0
                     THEN cancelled \cup {speakGen} ELSE cancelled
  /\ UNCHANGED <<now, itemId, srvGen, srvEmitted, callerSpeaking, speakGen, delivered, dropped>>
  /\ UNCHANGED <<call, speechStoppedTime, interruptions>>
  /\ scenario' = IF hpc = Len(HandlerProgram) THEN Follow("handled") ELSE scenario
  /\ truncateMsg' = IF HandlerProgram[hpc] = "truncate" THEN TruncateEvent ELSE truncateMsg
  /\ UNCHANGED <<smVars, raceVars, auxVars>>

\* input_audio_buffer.speech_stopped: the time is noted and `response.create`
\* is sent.
OnSpeechStopped ==
  /\ call = "answered"
  /\ LoopIdle
  /\ wire # <<>> /\ Head(wire).type = "speech_stopped"
  /\ wire' = Tail(wire)
  /\ IF srvActive = 0 /\ srvGen < MaxGens
     THEN /\ srvGen' = srvGen + 1
          /\ srvActive' = srvGen + 1
          /\ srvEmitted' = 0
     ELSE UNCHANGED <<srvGen, srvActive, srvEmitted>>
  /\ speechStoppedTime' = now
  /\ UNCHANGED <<now, agentSpeaking, itemId, audioChunks, suppressUntil, hpc, steps,
                 callerSpeaking, speakGen, cancelled, delivered, dropped>>
  /\ UNCHANGED <<call, interruptions>>
  /\ scenario' = Follow("speech_stopped")
  /\ UNCHANGED truncateMsg
  /\ UNCHANGED <<smVars, raceVars, auxVars>>

\* response.audio.delta
OnAudioDelta ==
  /\ call = "answered"
  /\ LoopIdle
  /\ wire # <<>> /\ Head(wire).type = "audio"
  /\ wire' = Tail(wire)
  /\ IF Suppressed
     THEN /\ dropped' = dropped + 1
          /\ UNCHANGED <<audioChunks, agentSpeaking, speakGen, speechStoppedTime>>
     ELSE /\ audioChunks' = Append(audioChunks, Head(wire).gen)
          /\ agentSpeaking' = BeginsSpeaking
          /\ speechStoppedTime' = -1
          /\ speakGen' = Head(wire).gen
          /\ UNCHANGED dropped
  /\ UNCHANGED <<now, itemId, suppressUntil, hpc, steps, srvGen, srvActive, srvEmitted,
                 callerSpeaking, cancelled, delivered>>
  /\ UNCHANGED <<call, interruptions>>
  /\ scenario' = Follow("audio")
  /\ UNCHANGED truncateMsg
  /\ UNCHANGED <<smVars, raceVars, auxVars>>

\* response.done
OnResponseDone ==
  /\ call = "answered"
  /\ LoopIdle
  /\ wire # <<>> /\ Head(wire).type = "done"
  /\ wire' = Tail(wire)
  /\ itemId' = Head(wire).gen
  /\ agentSpeaking' = FALSE
  /\ UNCHANGED <<now, audioChunks, suppressUntil, hpc, steps, srvGen, srvActive, srvEmitted,
                 callerSpeaking, speakGen, cancelled, delivered, dropped>>
  /\ UNCHANGED <<call, speechStoppedTime, interruptions>>
  /\ scenario' = Follow("done")
  /\ UNCHANGED truncateMsg
  /\ UNCHANGED <<smVars, raceVars, auxVars>>

\* The Media Relay takes the next buffered chunk and sends it to the caller.
SendAudio ==
  /\ call = "answered"
  /\ ~Atomic
  /\ audioChunks # <<>>
  /\ delivered' = [delivered EXCEPT ![Head(audioChunks)] = @ + 1]
  /\ audioChunks' = Tail(audioChunks)
  /\ UNCHANGED <<now, agentSpeaking, itemId, suppressUntil, hpc, steps, wire, srvGen,
                 srvActive, srvEmitted, callerSpeaking, speakGen, cancelled, dropped>>
  /\ UNCHANGED <<call, speechStoppedTime, interruptions>>
  /\ UNCHANGED scenario
  /\ UNCHANGED truncateMsg
  /\ UNCHANGED <<smVars, raceVars, auxVars>>

CallNext ==
  \/ OnCallAnswered
  \/ OnCallEnded
  \/ SrvEmitAudio
  \/ SrvEmitDone
  \/ CallerStartsSpeaking
  \/ CallerStopsSpeaking
  \/ Tick
  \/ OnSpeechStarted
  \/ InterruptStep
  \/ OnSpeechStopped
  \/ OnAudioDelta
  \/ OnResponseDone
  \/ SendAudio

(***************************************************************************)
(* Part 3: _race_openrouter_models with the emergency fallback             *)
(***************************************************************************)

\* Bound of the race model.
MaxTokens == 2    \* tokens a provider yields

\* The three OpenRouter models that race.
NumModels == 3
\* `await asyncio.sleep(1.5)`, in ms.
TFallback == 1500

Models == 1..NumModels
Fallback == NumModels + 1
Cands == 1..Fallback

\* First-token latencies the providers may show, in ms (0: no token ever, the
\* request waits forever or ended in an API error).
ModelLatencies == {0, 900, 950, 1000, 1700}
FallbackLatencies == {180, 500}

\* The race begins: one request per OpenRouter model, the fallback task armed.
RaceInit ==
  /\ clock = 0
  /\ lat \in {l \in [Cands -> ModelLatencies \cup FallbackLatencies] :
                /\ \A c \in Models : l[c] \in ModelLatencies
                /\ l[Fallback] \in FallbackLatencies}
  /\ startAt = [c \in Cands |-> IF c \in Models THEN 0 ELSE -1]
  /\ cstate = [c \in Cands |-> IF c \in Models THEN "running" ELSE "idle"]
  /\ yielded = [c \in Cands |-> 0]
  /\ queue = [c \in Cands |-> 0]
  /\ winner = 0
  /\ timer = "armed"
  /\ raceBuf = <<>>
  /\ sessionClosed = FALSE

Started(c) == cstate[c] # "idle"
\* When candidate c's first token arrives.
Arrival(c) == startAt[c] + lat[c]
\* c's first token is due and its provider has not produced it yet.
FirstTokenDue(c) == Started(c) /\ lat[c] # 0 /\ yielded[c] = 0 /\ clock >= Arrival(c)

\* "Checks all queues (OpenRouter + fallback) for first token".
ReadyOrRunning(c) == cstate[c] = "running"
Ready(c) == queue[c] > 0

\* The stream that is read once the race is decided.
FeedsAny(c) == winner # 0
Feeds(c) == c = winner

\* A provider yields a token into its candidate's queue.  A provider whose
\* candidate was cancelled may keep streaming.
Yield(c) ==
  /\ Started(c)
  /\ lat[c] # 0
  /\ clock >= Arrival(c)
  /\ yielded[c] < MaxTokens
  /\ yielded' = [yielded EXCEPT ![c] = @ + 1]
  /\ queue' = [queue EXCEPT ![c] = @ + 1]
  /\ UNCHANGED <<clock, lat, startAt, cstate, winner, timer, raceBuf>>
  /\ UNCHANGED <<sessionClosed, smVars, callVars, auxVars>>

LastReady ==
  CHOOSE c \in Cands : Ready(c) /\ \A d \in Cands : Ready(d) => c >= d
\* Of the candidates with a token in their queue, the first in the order in
\* which the queues are checked: the OpenRouter models as listed, then the
\* fallback.
FirstReady ==
  CHOOSE c \in Cands : Ready(c) /\ \A d \in Cands : Ready(d) => c <= d

LosersKeepRunning(w) == cstate
\* "Losing models are immediately cancelled".
LosersCancelled(w) ==
  [c \in Cands |-> IF c # w /\ cstate[c] = "running" THEN "cancelled" ELSE cstate[c]]

PickWinnerKeepsTimer ==
  /\ winner = 0
  /\ \E c \in Cands : Ready(c)
  /\ LET w == FirstReady IN
     /\ winner' = w
     /\ cstate' = LosersCancelled(w)
  /\ UNCHANGED <<clock, lat, startAt, yielded, queue, raceBuf, timer>>
  /\ UNCHANGED <<sessionClosed, smVars, callVars, auxVars>>
\* "First model to produce a token wins. Losing models are immediately
\* cancelled", "Cancels fallback if OpenRouter wins first".
PickWinner ==
  /\ winner = 0
  /\ \E c \in Cands : Ready(c)
  /\ LET w == FirstReady IN
     /\ winner' = w
     /\ cstate' = LosersCancelled(w)
  /\ timer' = IF timer = "armed" THEN "cancelled" ELSE timer
  /\ UNCHANGED <<clock, lat, startAt, yielded, queue, raceBuf>>
  /\ UNCHANGED <<sessionClosed, smVars, callVars, auxVars>>

FallbackFireCancelsRace ==
  /\ timer = "armed"
  /\ clock >= TFallback
  /\ winner = 0
  /\ timer' = "fired"
  /\ cstate' = [c \in Cands |-> IF c = Fallback THEN "running"
                                ELSE IF cstate[c] = "running" THEN "cancelled"
                                ELSE cstate[c]]
  /\ startAt' = [startAt EXCEPT ![Fallback] = clock]
  /\ UNCHANGED <<clock, lat, yielded, queue, winner, raceBuf>>
  /\ UNCHANGED <<sessionClosed, smVars, callVars, auxVars>>
FallbackNeverFires == FALSE
\* The delayed fallback task wakes up after TFallback with no winner and
\* starts the direct OpenAI request.
FallbackFire ==
  /\ timer = "armed"
  /\ clock >= TFallback
  /\ winner = 0
  /\ timer' = "fired"
  /\ cstate' = [cstate EXCEPT ![Fallback] = "running"]
  /\ startAt' = [startAt EXCEPT ![Fallback] = clock]
  /\ UNCHANGED <<clock, lat, yielded, queue, winner, raceBuf>>
  /\ UNCHANGED <<sessionClosed, smVars, callVars, auxVars>>

FailureCancelsOthers(m) ==
  [c \in Cands |-> IF c = m THEN "failed"
                    ELSE IF cstate[c] = "running" THEN "cancelled" ELSE cstate[c]]
\* What a provider's failure does to the candidates: the failed one is out,
\* the race goes on with the others.
FailureEffect(m) == [cstate EXCEPT ![m] = "failed"]

\* An OpenRouter model that yields no token ends with an API error before
\* the race is decided ("API errors or infinite wait").
ProviderUnavailable(m) ==
  /\ winner = 0
  /\ cstate[m] = "running"
  /\ lat[m] = 0
  /\ cstate' = FailureEffect(m)
  /\ UNCHANGED <<clock, lat, startAt, yielded, queue, winner, timer, raceBuf>>
  /\ UNCHANGED <<sessionClosed, smVars, callVars, auxVars>>

\* The winner's stream is passed on to the Audio Buffer.
Consume ==
  /\ \E c \in Cands :
       /\ Feeds(c)
       /\ queue[c] > 0
       /\ queue' = [queue EXCEPT ![c] = @ - 1]
       /\ raceBuf' = Append(raceBuf, c)
  /\ UNCHANGED <<clock, lat, startAt, cstate, yielded, winner, timer>>
  /\ UNCHANGED <<sessionClosed, smVars, callVars, auxVars>>

\* CallSession.close() runs while the turn is in progress: it closes the
\* two sockets and the HTTP client and touches no task of the race.
CloseWhileRacing ==
  /\ ~sessionClosed
  /\ sessionClosed' = TRUE
  /\ UNCHANGED <<clock, lat, startAt, cstate, yielded, queue, winner, timer, raceBuf>>
  /\ UNCHANGED <<smVars, callVars, auxVars>>

\* The times at which something is still to happen.
Pending ==
  {Arrival(c) : c \in {d \in Cands : Started(d) /\ lat[d] # 0 /\ yielded[d] = 0}}
    \cup (IF timer = "armed" THEN {TFallback} ELSE {})

\* Time passes up to the next pending time, once the event loop has run
\* everything that is ready.
Advance ==
  /\ \A c \in Cands : ~FirstTokenDue(c)
  /\ ~(winner = 0 /\ \E c \in Cands : Ready(c))
  /\ ~(timer = "armed" /\ clock >= TFallback)
  /\ ~(winner # 0 /\ queue[winner] > 0)
  /\ \E t \in Pending :
       /\ t > clock
       /\ \A u \in Pending : u > clock => t <= u
       /\ clock' = t
  /\ UNCHANGED <<lat, startAt, cstate, yielded, queue, winner, timer, raceBuf>>
  /\ UNCHANGED <<sessionClosed, smVars, callVars, auxVars>>

RaceNext ==
  \/ \E c \in Cands : Yield(c)
  \/ PickWinner
  \/ FallbackFire
  \/ Consume
  \/ CloseWhileRacing
  \/ \E m \in Models : ProviderUnavailable(m)
  \/ Advance

(***************************************************************************)
(* Part 4: the end of a call, with the call-end record                     *)
(***************************************************************************)

\* Bound: the responses whose latency is recorded before the call ends.
MaxTurns == 2

\* Response latencies in ms.
Latencies == {300, 500, 700}

EndInit ==
  /\ responseTimes = <<>>
  /\ endPc = "live"
  /\ endAvg = -1
  /\ endRecord = "none"
  /\ endReleased = {}
  /\ endRegistered = TRUE
  /\ endError = "none"

RECURSIVE SumSeq(_)
SumSeq(seq) == IF seq = <<>> THEN 0 ELSE Head(seq) + SumSeq(Tail(seq))

\* `self._response_times.append(latency_ms)` at the first audio delta after
\* the caller stopped speaking.
RecordResponseTime(l) ==
  /\ endPc = "live"
  /\ Len(responseTimes) < MaxTurns
  /\ responseTimes' = Append(responseTimes, l)
  /\ UNCHANGED <<endPc, endAvg, endRecord, endReleased, endRegistered, endError>>
  /\ UNCHANGED <<smVars, callVars, raceVars, monVars, guiVars>>

\* close() begins:
\* `avg_response_time = sum(self._response_times) / len(self._response_times)`.
\* With an empty list the division raises; the exception leaves close() and
\* close_session before anything else has run.
CloseComputesAverage ==
  /\ endPc = "live"
  /\ IF Len(responseTimes) = 0
     THEN /\ endError' = "ZeroDivisionError"
          /\ endPc' = "done"
          /\ UNCHANGED endAvg
     ELSE /\ endAvg' = SumSeq(responseTimes) \div Len(responseTimes)
          /\ endPc' = "log"
          /\ UNCHANGED endError
  /\ UNCHANGED <<responseTimes, endRecord, endReleased, endRegistered>>
  /\ UNCHANGED <<smVars, callVars, raceVars, monVars, guiVars>>

\* How a call of CallLogger.log_call_end can end: the record is written; the
\* write fails and the logger returns; the write fails and the error is
\* raised to the caller.
LogOutcomes == {"written", "lost", "raised"}

\* `CallLogger.log_call_end(call_uuid, transcript, avg_response_time)`: a
\* plain call inside close(), with no handler around it.
LogCallEnd(outcome) ==
  /\ endPc = "log"
  /\ endRecord' = IF outcome = "written" THEN "written" ELSE "lost"
  /\ IF outcome = "raised"
     THEN endError' = "LogError" /\ endPc' = "done"
     ELSE endPc' = "release" /\ UNCHANGED endError
  /\ UNCHANGED <<responseTimes, endAvg, endReleased, endRegistered>>
  /\ UNCHANGED <<smVars, callVars, raceVars, monVars, guiVars>>

\* The releases of close(), one after the other; a failing release is caught
\* and logged (Part 1).
ReleaseResource ==
  /\ endPc = "release"
  /\ \E i \in 1..Len(ResOrder) :
       /\ ResOrder[i] \notin endReleased
       /\ \A j \in 1..(i - 1) : ResOrder[j] \in endReleased
       /\ endReleased' = endReleased \cup {ResOrder[i]}
  /\ UNCHANGED <<responseTimes, endPc, endAvg, endRecord, endRegistered, endError>>
  /\ UNCHANGED <<smVars, callVars, raceVars, monVars, guiVars>>

\* close() has returned: `del self._sessions[call_uuid]`.
FinishClose ==
  /\ endPc = "release"
  /\ endReleased = ResNames
  /\ endRegistered' = FALSE
  /\ endPc' = "done"
  /\ UNCHANGED <<responseTimes, endAvg, endRecord, endReleased, endError>>
  /\ UNCHANGED <<smVars, callVars, raceVars, monVars, guiVars>>

EndNext ==
  \/ \E l \in Latencies : RecordResponseTime(l)
  \/ CloseComputesAverage
  \/ \E outcome \in LogOutcomes : LogCallEnd(outcome)
  \/ ReleaseResource
  \/ FinishClose

(***************************************************************************)
(* Part 5: the response-timeout monitor and its settings                   *)
(***************************************************************************)

\* Bound of the clock of this part.
MaxMonTime == 4

\* The thresholds that can be saved, in ticks (0.5 to 10.0 seconds).
TimeoutChoices == {1, 2}
ConfigValues == [enabled : BOOLEAN, seconds : TimeoutChoices]

\* load_timeout_test_settings(): "Defaults to disabled (enabled=False,
\* seconds=2.0)".
MonInit ==
  /\ config = [enabled |-> FALSE, seconds |-> 2]
  /\ configAtCreation = [enabled |-> FALSE, seconds |-> 2]
  /\ mtime = 0
  /\ mcall = "none"
  /\ phase = "idle"
  /\ turn = 0
  /\ mtask = "none"
  /\ mdeadline = -1
  /\ usedSeconds = 0
  /\ triggered = FALSE
  /\ plays = 0

\* POST /api/super-admin/timeout-test-settings: "Updates CONFIG immediately".
SaveTimeoutSettings(c) ==
  /\ c # config
  /\ config' = c
  /\ UNCHANGED <<configAtCreation, mtime, mcall, phase, turn, mtask, mdeadline,
                 usedSeconds, triggered, plays>>
  /\ UNCHANGED <<smVars, callVars, raceVars, endVars, guiVars>>

\* A call is answered and its session is created.
CallStarts ==
  /\ mcall = "none"
  /\ mcall' = "live"
  /\ configAtCreation' = config
  /\ UNCHANGED <<config, mtime, phase, turn, mtask, mdeadline, usedSeconds, triggered, plays>>
  /\ UNCHANGED <<smVars, callVars, raceVars, endVars, guiVars>>

TaskKeepsRunning(t) == t
\* The monitor task is cancelled: a task that waits or generates the audio
\* stops there.
CancelledTask(t) == IF t \in {"waiting", "generating"} THEN "cancelled" ELSE t

\* _start_timeout_test_monitor(): "Starts monitoring when response is
\* triggered", with the settings CONFIG holds at that moment.
TriggerResponse ==
  /\ mcall = "live"
  /\ phase = "idle"
  /\ turn < MaxTurns
  /\ turn' = turn + 1
  /\ phase' = "pending"
  /\ triggered' = FALSE
  /\ plays' = 0
  /\ IF config.enabled
     THEN /\ mtask' = "waiting"
          /\ mdeadline' = mtime + config.seconds
          /\ usedSeconds' = config.seconds
     ELSE /\ mtask' = CancelledTask(mtask)
          /\ mdeadline' = -1
          /\ usedSeconds' = 0
  /\ UNCHANGED <<config, configAtCreation, mtime, mcall>>
  /\ UNCHANGED <<smVars, callVars, raceVars, endVars, guiVars>>

\* "Timeout task is automatically cancelled when ... the audio starts playing
\* normally".
AudioBegins ==
  /\ mcall = "live"
  /\ phase = "pending"
  /\ phase' = "audio"
  /\ mtask' = CancelledTask(mtask)
  /\ UNCHANGED <<config, configAtCreation, mtime, mcall, turn, mdeadline, usedSeconds,
                 triggered, plays>>
  /\ UNCHANGED <<smVars, callVars, raceVars, endVars, guiVars>>

\* "... when a new caller turn begins".
NewCallerTurn ==
  /\ mcall = "live"
  /\ phase \in {"pending", "audio"}
  /\ phase' = "idle"
  /\ mtask' = CancelledTask(mtask)
  /\ UNCHANGED <<config, configAtCreation, mtime, mcall, turn, mdeadline, usedSeconds,
                 triggered, plays>>
  /\ UNCHANGED <<smVars, callVars, raceVars, endVars, guiVars>>

\* "... when the call ends".
CallEnds ==
  /\ mcall = "live"
  /\ mcall' = "ended"
  /\ mtask' = CancelledTask(mtask)
  /\ UNCHANGED <<config, configAtCreation, mtime, phase, turn, mdeadline, usedSeconds,
                 triggered, plays>>
  /\ UNCHANGED <<smVars, callVars, raceVars, endVars, guiVars>>

\* _monitor_timeout_test(): the wait is over and no audio has come; the flag
\* keeps a second playback out, then the audio is generated.
MonitorTimeout ==
  /\ mtask = "waiting"
  /\ mtime >= mdeadline
  /\ IF triggered
     THEN mtask' = "finished" /\ UNCHANGED triggered
     ELSE mtask' = "generating" /\ triggered' = TRUE
  /\ UNCHANGED <<config, configAtCreation, mtime, mcall, phase, turn, mdeadline,
                 usedSeconds, plays>>
  /\ UNCHANGED <<smVars, callVars, raceVars, endVars, guiVars>>

\* _generate_and_play_timeout_audio(): the generated audio is sent to the
\* Vonage socket.
PlayTimeoutAudio ==
  /\ mtask = "generating"
  /\ plays' = plays + 1
  /\ mtask' = "finished"
  /\ UNCHANGED <<config, configAtCreation, mtime, mcall, phase, turn, mdeadline,
                 usedSeconds, triggered>>
  /\ UNCHANGED <<smVars, callVars, raceVars, endVars, guiVars>>

MonTick ==
  /\ mtime < MaxMonTime
  /\ mtime' = mtime + 1
  /\ UNCHANGED <<config, configAtCreation, mcall, phase, turn, mtask, mdeadline,
                 usedSeconds, triggered, plays>>
  /\ UNCHANGED <<smVars, callVars, raceVars, endVars, guiVars>>

MonNext ==
  \/ \E c \in ConfigValues : SaveTimeoutSettings(c)
  \/ CallStarts
  \/ TriggerResponse
  \/ AudioBegins
  \/ NewCallerTurn
  \/ CallEnds
  \/ MonitorTimeout
  \/ PlayTimeoutAudio
  \/ MonTick

(***************************************************************************)
(* Part 6: the server control panel                                        *)
(***************************************************************************)

\* Bounds: server processes that can be spawned, threads of the panel.
MaxServers == 3
NumThreads == 2

ServerIds == 1..MaxServers
GuiThreads == 1..NumThreads

IdleThread == [pc |-> "idle", op |-> "none", pid |-> 0]

GuiInit ==
  /\ srv = [p \in ServerIds |-> "none"]
  /\ termSent = {}
  /\ gthread = [t \in GuiThreads |-> IdleThread]

\* get_pid_on_port(SERVER_PORT): the process that listens on the port
\* (0: None).
PidOnPort ==
  IF \E p \in ServerIds : srv[p] = "listening"
  THEN CHOOSE p \in ServerIds : srv[p] = "listening"
  ELSE 0

\* is_server_running()
IsServerRunning == PidOnPort # 0

\* The process id the next subprocess.Popen gets.
NextServer == CHOOSE p \in ServerIds : srv[p] = "none" /\ \A q \in ServerIds : srv[q] = "none" => p <= q

\* start_server, _start: the check.  "Server already running": return.
StartCheck(t) ==
  /\ gthread[t].pc = "idle"
  /\ gthread' = [gthread EXCEPT ![t] =
       IF IsServerRunning
       THEN [pc |-> "idle", op |-> "start", pid |-> PidOnPort]
       ELSE [pc |-> "spawn", op |-> "start", pid |-> 0]]
  /\ UNCHANGED <<srv, termSent>>
  /\ UNCHANGED <<smVars, callVars, raceVars, endVars, monVars>>

\* subprocess.Popen([python_exe, script_path], ...) in _start and _restart.
Spawn(t) ==
  /\ gthread[t].pc = "spawn"
  /\ \E p \in ServerIds : srv[p] = "none"
  /\ srv' = [srv EXCEPT ![NextServer] = "starting"]
  /\ gthread' = [gthread EXCEPT ![t].pc = "wait"]
  /\ UNCHANGED termSent
  /\ UNCHANGED <<smVars, callVars, raceVars, endVars, monVars>>

\* time.sleep(...), is_server_running(), the log lines, update_status().
Finish(t) ==
  /\ gthread[t].pc = "wait"
  /\ gthread' = [gthread EXCEPT ![t].pc = "idle"]
  /\ UNCHANGED <<srv, termSent>>
  /\ UNCHANGED <<smVars, callVars, raceVars, endVars, monVars>>

\* A started server binds the port when no other process holds it.
ServerBinds(p) ==
  /\ srv[p] = "starting"
  /\ ~IsServerRunning
  /\ srv' = [srv EXCEPT ![p] = "listening"]
  /\ UNCHANGED <<termSent, gthread>>
  /\ UNCHANGED <<smVars, callVars, raceVars, endVars, monVars>>

\* A started server finds the port in use and exits.
BindFails(p) ==
  /\ srv[p] = "starting"
  /\ IsServerRunning
  /\ srv' = [srv EXCEPT ![p] = "stopped"]
  /\ UNCHANGED <<termSent, gthread>>
  /\ UNCHANGED <<smVars, callVars, raceVars, endVars, monVars>>

\* A process that was sent terminate() stops after the wait has timed out.
TerminationCompletes(p) ==
  /\ p \in termSent
  /\ srv' = [srv EXCEPT ![p] = "stopped"]
  /\ termSent' = termSent \ {p}
  /\ UNCHANGED gthread
  /\ UNCHANGED <<smVars, callVars, raceVars, endVars, monVars>>

\* How terminate() and wait(timeout=5) can end: the process has stopped; it
\* still runs after 5 seconds (TimeoutExpired); terminate or the lookup of the
\* process raises and the process is as it was.
TermOutcomes == {"stopped", "timeout", "error"}

\* What the process is afterwards.
AfterTerminate(p, outcome) ==
  IF outcome = "stopped" THEN "stopped" ELSE srv[p]

\* stop_server, _stop: the check.  "Server is not running": return.
StopCheck(t) ==
  /\ gthread[t].pc = "idle"
  /\ gthread' = [gthread EXCEPT ![t] =
       IF IsServerRunning
       THEN [pc |-> "stop", op |-> "stop", pid |-> PidOnPort]
       ELSE [pc |-> "idle", op |-> "stop", pid |-> 0]]
  /\ UNCHANGED <<srv, termSent>>
  /\ UNCHANGED <<smVars, callVars, raceVars, endVars, monVars>>

\* _stop: terminate, wait(timeout=5); on TimeoutExpired proc.kill().
StopTerminate(t, outcome) ==
  /\ gthread[t].pc = "stop"
  /\ LET p == gthread[t].pid IN
     /\ outcome \in {"stopped", "timeout"} => srv[p] = "listening"
     /\ srv' = [srv EXCEPT ![p] = IF outcome = "timeout" THEN "stopped"
                                   ELSE AfterTerminate(p, outcome)]
     /\ termSent' = IF outcome = "error" THEN termSent ELSE termSent \ {p}
  /\ gthread' = [gthread EXCEPT ![t].pc = "idle"]
  /\ UNCHANGED <<smVars, callVars, raceVars, endVars, monVars>>

\* restart_server, _restart: the check.
RestartCheck(t) ==
  /\ gthread[t].pc = "idle"
  /\ gthread' = [gthread EXCEPT ![t] =
       IF IsServerRunning
       THEN [pc |-> "terminate", op |-> "restart", pid |-> PidOnPort]
       ELSE [pc |-> "spawn", op |-> "restart", pid |-> 0]]
  /\ UNCHANGED <<srv, termSent>>
  /\ UNCHANGED <<smVars, callVars, raceVars, endVars, monVars>>

\* _restart: terminate, wait(timeout=5) inside `except Exception`, which also
\* takes TimeoutExpired; then time.sleep(1) and on to the start.
RestartTerminate(t, outcome) ==
  /\ gthread[t].pc = "terminate"
  /\ LET p == gthread[t].pid IN
     /\ outcome \in {"stopped", "timeout"} => srv[p] = "listening"
     /\ srv' = [srv EXCEPT ![p] = AfterTerminate(p, outcome)]
     /\ termSent' = IF outcome = "timeout" THEN termSent \cup {p}
                     ELSE IF outcome = "stopped" THEN termSent \ {p}
                     ELSE termSent
  /\ gthread' = [gthread EXCEPT ![t].pc = "spawn"]
  /\ UNCHANGED <<smVars, callVars, raceVars, endVars, monVars>>

GuiNext ==
  \E t \in GuiThreads :
    \/ StartCheck(t)
    \/ Spawn(t)
    \/ Finish(t)
    \/ \E p \in ServerIds : ServerBinds(p)
    \/ \E p \in ServerIds : BindFails(p)
    \/ \E p \in ServerIds : TerminationCompletes(p)
    \/ StopCheck(t)
    \/ \E outcome \in TermOutcomes : StopTerminate(t, outcome)
    \/ RestartCheck(t)
    \/ \E outcome \in TermOutcomes : RestartTerminate(t, outcome)

(***************************************************************************)
(* Specifications                                                          *)
(***************************************************************************)

\* The race part at rest: no request started.
RaceIdle ==
  /\ clock = 0
  /\ lat = [c \in Cands |-> 0]
  /\ startAt = [c \in Cands |-> -1]
  /\ cstate = [c \in Cands |-> "idle"]
  /\ yielded = [c \in Cands |-> 0]
  /\ queue = [c \in Cands |-> 0]
  /\ winner = 0
  /\ timer = "cancelled"
  /\ raceBuf = <<>>
  /\ sessionClosed = FALSE

Init == SmInit /\ CallInit /\ RaceIdle /\ EndInit /\ MonInit /\ GuiInit
RaceStart == SmInit /\ CallInit /\ RaceInit /\ EndInit /\ MonInit /\ GuiInit

SpecSessions == Init /\ [][SmNext]_vars
SpecSeq == Init /\ [][SeqNext]_vars
\* An awaited release returns or raises in the end.
FairSpecSeq == SpecSeq /\ WF_vars(\E ok \in BOOLEAN : ResumeClose(1, ok))
SpecCall == Init /\ [][CallNext]_vars
SpecRace == RaceStart /\ [][RaceNext]_vars
\* The event loop runs every callback that is ready and the clock goes on.
FairSpecRace == SpecRace /\ WF_vars(RaceNext)
SpecEnd == Init /\ [][EndNext]_vars
SpecMonitor == Init /\ [][MonNext]_vars
SpecGui == Init /\ [][GuiNext]_vars

(***************************************************************************)
(* Claims about the SessionManager                                         *)
(***************************************************************************)

\* A session that still holds a resource no release was ever attempted on.
Live(s) == \E r \in held[s] : attempts[s][r] = 0

\* A create_session call of p returns in this step.
CreateReturns(p) == task'[p] # task[p] /\ task'[p].result = "created"

\* p, idle, calls close_session(id) in this step.
CloseCalled(p, id) ==
  /\ task[p].pc = "idle"
  /\ task'[p] # task[p]
  /\ task'[p].op = "close"
  /\ task'[p].arg = id

\* C1: for every call_uuid and every interleaving of concurrent
\* create_session calls, once a later create_session(id) has returned (its
\* session is constructed and registered in one step), no session constructed
\* earlier for the same id is still live.  (_sessions is a dict, so at most
\* one session is registered per id by construction.)
C1_NoEarlierSessionLive ==
  \A s1, s2 \in 1..nextSess :
    (s1 < s2 /\ owner[s1] = owner[s2]) => ~Live(s1)

\* C2: when create_session(id) finds a session registered for id, a release
\* has been attempted on each resource of that session before the new session
\* is registered, and the session returned is the one registered under id at
\* the moment of the return.
C2_RecreateClosesOldFirst ==
  [][\A p \in Procs :
       CreateReturns(p) =>
         /\ sessions'[task'[p].arg] = task'[p].ret
         /\ task'[p].sess # 0 =>
              \A r \in held[task'[p].sess] : attempts[task'[p].sess][r] >= 1]_vars
C2_Witness ==
  \E p \in Procs :
    /\ task[p].result = "created"
    /\ task[p].sess # 0
    /\ sessions[task[p].arg] = task[p].ret
    /\ held[task[p].sess] = ResNames

\* C3: close_session(id) for an id with no entry raises nothing, releases
\* nothing and leaves the registry and every session as they were.
C3_CloseAbsentIsNoOp ==
  [][\A p \in Procs, id \in Ids :
       (CloseCalled(p, id) /\ sessions[id] = 0) =>
         /\ task'[p].pc = "idle"
         /\ task'[p].result = "noop"
         /\ UNCHANGED <<sessions, nextSess, owner, held, present, attempts>>]_vars
C3_Witness ==
  \E p \in Procs, id \in Ids :
    /\ task[p].result = "noop"
    /\ task[p].arg = id
    /\ sessions[id] = 0
    /\ \E other \in Ids \ {id} : sessions[other] # 0 /\ Live(sessions[other])

C6_NoCancelledChunkDelivered ==
  [][\A g \in cancelled : delivered'[g] = delivered[g]]_vars

\* C7: after an interruption has set the suppression deadline, no audio chunk
\* at all is delivered to the Media Relay while the clock is before it.
C7_NothingDeliveredInWindow ==
  [][now < suppressUntil => delivered' = delivered]_vars
C7_Witness ==
  /\ now < suppressUntil
  /\ dropped > 0
  /\ steps = <<"cancel", "truncate", "clear", "suppress", "stop">>

IsPrefix(a, b) == Len(a) <= Len(b) /\ \A i \in 1..Len(a) : a[i] = b[i]
Did(op) == \E i \in 1..Len(steps) : steps[i] = op

Responding == {c \in Cands : Started(c) /\ lat[c] # 0}

\* C9: in a turn at most one candidate stream feeds the Audio Buffer: every
\* token that reaches it comes from the winner, also when another candidate
\* keeps yielding after it was cancelled.
C9_OnlyWinnerFeedsBuffer ==
  \A i \in 1..Len(raceBuf) : winner # 0 /\ raceBuf[i] = winner
C9_Witness ==
  /\ winner # 0
  /\ Len(raceBuf) = MaxTokens
  /\ \E c \in Cands \ {winner} :
       /\ cstate[c] = "cancelled"
       /\ Arrival(c) > Arrival(winner)
       /\ queue[c] = MaxTokens

\* C10: when the first tokens arrive at distinct times, the winner is the
\* candidate whose first token arrives earliest, its output reaches the Audio
\* Buffer, and every other candidate is cancelled with none of its output in
\* the buffer.
C10_EarliestWins ==
  (winner # 0 /\ \A c, d \in Responding : c # d => Arrival(c) # Arrival(d)) =>
    /\ winner \in Responding
    /\ \A c \in Responding \ {winner} : Arrival(winner) < Arrival(c)
    /\ \A c \in Cands \ {winner} : Started(c) => cstate[c] \in {"cancelled", "failed"}
    /\ \A i \in 1..Len(raceBuf) : raceBuf[i] = winner
    /\ clock > Arrival(winner) => Len(raceBuf) >= 1
C10_Witness ==
  /\ lat[1] = 900 /\ lat[2] = 950 /\ lat[3] = 1000
  /\ winner = 1
  /\ Len(raceBuf) >= 1
  /\ cstate[2] = "cancelled" /\ cstate[3] = "cancelled"
  /\ clock = 1000

\* The original providers that answer at all, and when.
Answering == {m \in Models : lat[m] # 0}
NoneByTFallback == \A m \in Answering : lat[m] > TFallback
SomeBeforeTFallback == \E m \in Answering : lat[m] < TFallback

\* C11: in a turn where no OpenRouter model has produced a first token by
\* TFallback, one fallback request is started, at TFallback; a fallback request
\* is never started twice in a turn, and starting it cancels no OpenRouter
\* request that is still running.
C11_OneFallbackAtTFallback ==
  /\ [](NoneByTFallback /\ clock > TFallback =>
          timer = "fired" /\ startAt[Fallback] = TFallback)
  /\ [][startAt'[Fallback] # startAt[Fallback] =>
          /\ cstate[Fallback] = "idle" /\ timer = "armed"
          /\ cstate'[Fallback] = "running" /\ timer' = "fired"
          /\ startAt'[Fallback] = TFallback
          /\ \A m \in Models : cstate'[m] = cstate[m]]_vars
C11_Witness ==
  /\ NoneByTFallback
  /\ clock > TFallback
  /\ timer = "fired"
  /\ startAt[Fallback] = TFallback
  /\ winner = 0
  /\ \E m \in Models : cstate[m] = "running" /\ lat[m] # 0

\* C12: in a turn where an OpenRouter model produces its first token before
\* TFallback, the fallback timer is cancelled when that token wins and no
\* fallback request is started at any point of the turn.
C12_NoFallbackAfterEarlyWin ==
  SomeBeforeTFallback =>
    /\ cstate[Fallback] = "idle"
    /\ timer # "fired"
    /\ winner # 0 => winner \in Models /\ timer = "cancelled"
    /\ clock >= TFallback => winner # 0
C12_Witness ==
  /\ SomeBeforeTFallback
  /\ winner \in Models
  /\ timer = "cancelled"
  /\ cstate[Fallback] = "idle"
  /\ clock > TFallback

\* C13: the fallback provider yields its first token lat[Fallback] after it
\* was started; in every turn a first token is accepted from some candidate,
\* and no later than TFallback + lat[Fallback] after the race began, whether
\* the OpenRouter models are slow, silent forever or failed.
C13_FirstTokenBound ==
  /\ [](winner = 0 => clock <= TFallback + lat[Fallback])
  /\ <>(winner # 0)
C13_Witness ==
  /\ \A m \in Models : lat[m] = 0
  /\ winner = Fallback
  /\ clock = TFallback + lat[Fallback]
  /\ Len(raceBuf) >= 1

(***************************************************************************)
(* Claims about the state of a call                                        *)
(***************************************************************************)

\* C14: in every reachable state, the agent speaking (state SPEAKING) implies
\* that the id of the response in flight is recorded
\* (_current_response_item_id is set).
C14_SpeakingHasResponseId ==
  agentSpeaking => itemId # 0

\* C15: in every reachable state the audio buffer holds chunks only while the
\* agent is speaking; it is empty after an interruption and after
\* response.done.
C15_BufferOnlyWhileSpeaking ==
  audioChunks # <<>> => agentSpeaking

States == {"IDLE", "LISTENING", "THINKING", "SPEAKING", "INTERRUPTED"}

\* The event a step handles ("none": the step handles no inbound event).
Handles ==
  IF call = "idle" /\ call' = "answered" THEN "call-answered"
  ELSE IF call = "answered" /\ call' = "ended" THEN "call-ended"
  ELSE IF wire # <<>> /\ wire' = Tail(wire) THEN Head(wire).type
  ELSE "none"

\* The transitions of the turn-taking state machine: <<state, event, state>>.
Transitions ==
  {<<"IDLE", "call-answered", "LISTENING">>,
   <<"LISTENING", "speech_stopped", "THINKING">>,
   <<"THINKING", "audio", "SPEAKING">>,
   <<"SPEAKING", "done", "LISTENING">>,
   <<"SPEAKING", "speech_started", "INTERRUPTED">>}
    \cup {<<st, "call-ended", "IDLE">> : st \in States}
HasTransition(st, ev) == \E t \in Transitions : t[1] = st /\ t[2] = ev

Released(s) == \A r \in held[s] : attempts[s][r] >= 1

C18_NoTaskEffectAfterClose ==
  [][sessionClosed =>
       /\ raceBuf' = raceBuf
       /\ startAt'[Fallback] = startAt[Fallback]]_vars

(***************************************************************************)
(* Claims about one turn after the other                                   *)
(***************************************************************************)

\* C19: from IDLE, the events call answered, speech_stopped, first audio
\* chunk, response.done, speech_started, the end of its handling,
\* speech_stopped, handled in this order, take the state through IDLE,
\* LISTENING, THINKING, SPEAKING, LISTENING and THINKING again, and one
\* interruption was run.
C19_StateSequence ==
  /\ scenario = 0 => State = "IDLE"
  /\ scenario = 1 => State = "LISTENING"
  /\ scenario = 2 => State = "THINKING"
  /\ scenario = 3 => State = "SPEAKING"
  /\ scenario = 4 => State \in {"SPEAKING", "LISTENING"}
  /\ scenario = 5 => State = "INTERRUPTED"
  /\ scenario = 6 => State = "LISTENING" /\ interruptions = 1
  /\ scenario = Len(Script) => State = "THINKING" /\ interruptions = 1

\* A conversation.item.truncate is sent in this step.
TruncateSent == Len(steps') = Len(steps) + 1 /\ steps'[Len(steps')] = "truncate"

\* C20: the truncate sent during an interruption carries the playback offset
\* of the interrupted response: its audio_end_ms is zero only when nothing of
\* that response has been played to the caller.
C20_TruncateAtPlaybackOffset ==
  [][TruncateSent =>
       (truncateMsg'.audio_end_ms = 0 <=> delivered[speakGen] = 0)]_vars

(***************************************************************************)
(* Claims about response ids                                               *)
(***************************************************************************)

\* The response whose chunk the Media Relay sends in this step (0: none).
DeliveredGen ==
  IF delivered' # delivered
  THEN CHOOSE g \in Gens : delivered'[g] # delivered[g]
  ELSE 0

\* C21: every audio chunk handed to the Media Relay belongs to the response
\* the session tracks as the current one at that moment
\* (_current_response_item_id).
C21_DeliveredChunkIsCurrent ==
  [][DeliveredGen # 0 => DeliveredGen = itemId]_vars

\* An audio delta is dropped by the suppression check in this step.
DroppedGen == IF dropped' # dropped THEN Head(wire).gen ELSE 0

\* C22: the suppression check drops only audio of an interrupted response: a
\* chunk of the response that was started after the interruption is not
\* dropped, also when it arrives before the suppression deadline.
C22_OnlyCancelledAudioDropped ==
  [][DroppedGen # 0 => DroppedGen \in cancelled]_vars

\* C23: the truncate sent during an interruption names the response that is
\* being spoken when speech_started arrives, never an earlier response and
\* never the placeholder.
C23_TruncateNamesInFlight ==
  [][TruncateSent => truncateMsg'.item_id = speakGen]_vars

\* C24: a response.done of a response that an interruption has already
\* cancelled leaves the state, the tracked response id and the audio buffer
\* as they were.
C24_StaleDoneIgnored ==
  [][(Handles = "done" /\ Head(wire).gen \in cancelled) =>
       /\ State' = State
       /\ itemId' = itemId
       /\ audioChunks' = audioChunks]_vars

\* C25: the interruption runs only when speech_started is handled while the
\* agent speaks; handled in any other state the event sends no cancel and no
\* truncate and leaves the audio buffer, the suppression deadline and the
\* tracked response id as they were.
C25_InterruptOnlyFromSpeaking ==
  [][(Handles = "speech_started" /\ State # "SPEAKING") =>
       /\ hpc' = 0
       /\ steps' = steps
       /\ truncateMsg' = truncateMsg
       /\ srvActive' = srvActive
       /\ audioChunks' = audioChunks
       /\ suppressUntil' = suppressUntil
       /\ itemId' = itemId]_vars

\* speech_started was handled outside SPEAKING with audio still buffered: the
\* caller speaks, the event is consumed, nothing was interrupted.
C25_Witness ==
  /\ State \in {"LISTENING", "THINKING"}
  /\ callerSpeaking /\ wire = <<>>
  /\ audioChunks # <<>>
  /\ interruptions = 0
  /\ suppressUntil = 0

\* C26: a session that close_session has taken out of the registry has had a
\* release attempted on every resource it holds: the entry is deleted only
\* after close() has gone through all of them.
C26_RegisteredUntilReleased ==
  \A s \in 1..nextSess :
    (\A id \in Ids : sessions[id] # s) => Released(s)

(***************************************************************************)
(* Claims about the decision of the race                                   *)
(***************************************************************************)

\* The race is decided in this step.
Decided == winner = 0 /\ winner' # 0

ListedChanges ==
  {<<"IDLE", "LISTENING">>, <<"LISTENING", "THINKING">>,
   <<"THINKING", "SPEAKING">>, <<"SPEAKING", "LISTENING">>,
   <<"SPEAKING", "INTERRUPTED">>, <<"INTERRUPTED", "LISTENING">>}
    \cup {<<st, "IDLE">> : st \in States}

\* C29: every change of the session's state is one of the listed transitions;
\* in particular INTERRUPTED is left for LISTENING or IDLE only.
C29_OnlyListedTransitions ==
  [][State' # State => <<State, State'>> \in ListedChanges]_vars

\* C30: from the moment the interruption has sent the cancellation until it
\* has finished, no audio delta and no response.done of the session is
\* handled and no chunk is put into the audio buffer; the buffer is empty
\* when the interruption finishes.
C30_InterruptionAtomic ==
  [][hpc > 0 =>
       /\ Handles \notin {"audio", "done"}
       /\ Len(audioChunks') <= Len(audioChunks)
       /\ hpc' = 0 => audioChunks' = <<>>]_vars

\* The interruption is suspended after the cancellation was sent while an
\* audio delta of the response waits to be handled.
C30_Witness ==
  /\ hpc = 2 /\ steps = <<"cancel">>
  /\ audioChunks # <<>>
  /\ wire # <<>> /\ Head(wire).type = "audio"

(***************************************************************************)
(* Claims about overlapping calls and failures at the end of a call        *)
(***************************************************************************)

\* C35: when two close_session calls for the same registered call_uuid
\* overlap (both looked the same session up before either deleted the
\* entry), neither call raises, no resource of the session has its release
\* attempted more than once, and once both have returned the call_uuid is not
\* registered with that session.
C35_OverlappingCloseSafe ==
  \A p, q \in Procs :
    (/\ p # q
     /\ task[p].op = "close" /\ task[q].op = "close"
     /\ task[p].sess # 0 /\ task[p].sess = task[q].sess) =>
      /\ task[p].result # "KeyError"
      /\ \A r \in ResNames : attempts[task[p].sess][r] <= 1
      /\ (task[p].pc = "idle" /\ task[q].pc = "idle") =>
            sessions[task[p].arg] # task[p].sess

\* A candidate has failed.
SomeFailed == \E m \in Cands : cstate[m] = "failed"

\* C32: when a racing provider fails before the race is decided, the race
\* goes on: the failure cancels no other candidate and stops no timer, a
\* failed provider is never the winner, and a candidate that remains wins in
\* the end.
C32_RaceSurvivesFailure ==
  /\ [][\A m \in Cands :
          (cstate[m] # "failed" /\ cstate'[m] = "failed") =>
            /\ winner' = 0
            /\ timer' = timer
            /\ \A c \in Cands \ {m} : cstate'[c] = cstate[c]]_vars
  /\ [](winner # 0 => cstate[winner] # "failed")
  /\ SomeFailed ~> (winner # 0 /\ cstate[winner] # "failed")

\* One OpenRouter model has failed and another one has won afterwards.
C32_Witness ==
  /\ SomeFailed
  /\ winner \in Models
  /\ Len(raceBuf) >= 1

\* C34: when the write of the call-end record fails, the teardown still
\* completes: no error leaves close_session, a release was attempted on every
\* resource and the session is out of the registry.
C34_RecordFailureHarmless ==
  (endPc = "done" /\ endRecord = "lost") =>
    /\ endError = "none"
    /\ endReleased = ResNames
    /\ ~endRegistered

\* C36: close completes without error for every number of recorded response
\* latencies, zero included: computing the average never raises and never
\* keeps the resources from being released.
C36_CloseWithAnyLatencies ==
  \A n \in 0..MaxTurns :
    (endPc = "done" /\ Len(responseTimes) = n /\ endRecord # "lost") =>
      /\ endError = "none"
      /\ endReleased = ResNames

(***************************************************************************)
(* Claims about the response-timeout monitor and the settings              *)
(***************************************************************************)

\* C31: in every turn the "deleted response" audio is played at most once;
\* it is played only when the threshold has elapsed with no audio of the
\* response, and never after the audio has begun, a new caller turn has begun
\* or the call has ended.
C31_TimeoutAudioOncePerTurn ==
  /\ [][plays' > plays =>
          /\ plays = 0
          /\ mcall = "live"
          /\ phase = "pending"
          /\ mtime >= mdeadline /\ mdeadline # -1]_vars
  /\ [](plays <= 1)

\* The audio was played in the second turn, whose response then began; in
\* the first turn the monitor had been stopped.
C31_Witness ==
  /\ turn = 2
  /\ plays = 1
  /\ phase = "audio"
  /\ mtask = "finished"

\* C33: the threshold a live session's monitor works with is the one of the
\* settings at the session's creation, whatever is saved while the call is
\* live.
C33_ConfigFixedAtCreation ==
  (mcall = "live" /\ turn >= 1) =>
    usedSeconds = (IF configAtCreation.enabled THEN configAtCreation.seconds ELSE 0)

(***************************************************************************)
(* Claims about the server control panel                                   *)
(***************************************************************************)

\* Thread t spawns a server process in this step.
Spawns(t) == gthread[t].pc = "spawn" /\ gthread'[t].pc = "wait"

\* C37: start_server never spawns a server process while one listens on the
\* server port, however two start requests interleave.
C37_NoStartWhileListening ==
  [][\A t \in GuiThreads :
       (gthread[t].op = "start" /\ Spawns(t)) => ~IsServerRunning]_vars

\* C38: restart_server spawns the new server process only when the process
\* it found listening has stopped, also when terminate fails or the wait
\* times out.
C38_RestartAfterOldStopped ==
  [][\A t \in GuiThreads :
       (gthread[t].op = "restart" /\ Spawns(t) /\ gthread[t].pid # 0) =>
         srv[gthread[t].pid] = "stopped"]_vars
====
